---- MODULE Spec2Model ----
(***************************************************************************)
(* Model of the layer-shell overlay helper (src/layer-shell-helper).      *)
(*                                                                         *)
(* main() enumerates the screens, creates one OverlayWindow per screen,   *)
(* writes the ready line to stdout and then runs the Qt event loop, in    *)
(* which a QSocketNotifier on stdin reads one command line per activation *)
(* and the windowing system delivers paint events.                        *)
(*                                                                         *)
(* Real numbers (double) are modelled in fixed point: the integer n       *)
(* stands for n / Unit, so 1.0 is Unit and 0.85 is 85.                    *)
(***************************************************************************)
EXTENDS Integers, Sequences, FiniteSets

VARIABLES
  pc,            \* position of main(): "create", "ready", "exec", "terminated"
  screens,       \* QGuiApplication::screens(): the names, in enumeration order
  windows,       \* QVector<OverlayWindow *> windows
  monitorNames,  \* QStringList monitorNames
  out,           \* the lines written to stdout and flushed
  stdin,         \* the lines written by the controller and not yet read
  eof,           \* the controller has closed its end of stdin
  arrived,       \* number of lines the controller has written so far
  exitReq,       \* QApplication::quit() has been called; exec() has not returned yet
  line           \* the handler's local: the line its latest activation read

vars == <<pc, screens, windows, monitorNames, out, stdin, eof, arrived, exitReq, line>>

----------------------------------------------------------------------------
(* Bounds of the model *)

\* at most this many screens are connected at startup
MaxScreens == 2

\* the controller writes at most this many lines
MaxLines == 2

----------------------------------------------------------------------------
(* Numbers *)

\* fixed-point denominator of a double: n stands for n / Unit
Unit == 100

\* qBound(0.0, level, 1.0): the lower and the upper limit
MinLevel == 0
MaxLevel == Unit

\* static constexpr double MAX_OPACITY = 0.85
MAX_OPACITY == 85

\* the factor 255 of paintEvent: the full value of an 8-bit colour channel
ChannelMax == 255

\* the numbers a "value" field may carry: below 0, the limits, in range, above 1
Values == {-50, 0, 50, 100, 500}

\* a QScreen: its name and its geometry (here the x offset and the width)
Screen(nm, x0, w) == [name |-> nm, geometry |-> <<x0, w>>]

\* the screens the compositor may enumerate, in its order
AllScreens ==
  << Screen("DP-1", 0, 1920), Screen("HDMI-1", 1920, 2560),
     Screen("eDP-1", 4480, 1366), Screen("DP-2", 5846, 1920) >>

Min(a, b) == IF a < b THEN a ELSE b

\* the screen lists main() may find at startup
ScreenLists == { SubSeq(AllScreens, 1, n) : n \in 0..Min(MaxScreens, Len(AllScreens)) }

----------------------------------------------------------------------------
(* JSON values and input lines *)

\* a QJsonValue: Undefined (absent field), a string or a number
Undefined == [t |-> "undefined", s |-> "", n |-> 0]
Str(x) == [t |-> "string", s |-> x, n |-> 0]
Num(x) == [t |-> "number", s |-> "", n |-> x]

\* QJsonValue::toString(): the string, or "" when the value is no string
ToString(jv) == IF jv.t = "string" THEN jv.s ELSE ""

\* QJsonValue::toDouble(): the number, or 0 when the value is no number
ToDouble(jv) == IF jv.t = "number" THEN jv.n ELSE 0

\* A line of text on stdin.  kind says what the text is: "empty" (only the
\* newline), "garbage" (not JSON, e.g. a truncated object), "array" (a JSON
\* document that is no object) or "object".  cmd and value are the fields
\* written in the text, whether or not the text parses as an object.
Line(k, c, v) == [kind |-> k, cmd |-> c, value |-> v]

EmptyLine == Line("empty", Undefined, Undefined)

\* the null QString readLine() returns at the end of the stream
NullLine == Line("null", Undefined, Undefined)

\* no activation yet
NoLine == Line("none", Undefined, Undefined)

QuitLine == Line("object", Str("quit"), Undefined)

SetOpacityLine(v) == Line("object", Str("set_opacity"), v)

\* set_opacity lines: a numeric value, no value, a value that is a string
SetOpacityLines ==
  { SetOpacityLine(Num(v)) : v \in Values }
    \cup { SetOpacityLine(Undefined), SetOpacityLine(Str("0.5")) }

\* lines the handler has to ignore
MalformedLines ==
  { Line("garbage", Str("quit"), Undefined),              \* {"cmd":"quit"
    Line("garbage", Str("set_opacity"), Num(50)),         \* {"cmd":"set_opacity","value":0.5
    Line("array", Str("set_opacity"), Num(100)),          \* [{"cmd":"set_opacity","value":1}]
    Line("object", Undefined, Num(50)),                   \* {"value":0.5}
    Line("object", Str("dim"), Num(50)),                  \* {"cmd":"dim","value":0.5}
    Line("object", Num(100), Num(100)) }                  \* {"cmd":1,"value":1}

Lines == {EmptyLine, QuitLine} \cup SetOpacityLines \cup MalformedLines

\* QJsonObject without fields
EmptyObject == [cmd |-> Undefined, value |-> Undefined]

\* mutant of FromJsonObject: a lenient parser that also takes the fields of
\* a text that is no valid JSON object
FromJsonObject_Lenient(l) == [cmd |-> l.cmd, value |-> l.value]

\* QJsonDocument::fromJson(line.toUtf8()).object(): the object the text
\* holds, or the empty object when the text is no JSON or no JSON object
FromJsonObject(l) ==
  IF l.kind = "object" THEN [cmd |-> l.cmd, value |-> l.value]
  ELSE EmptyObject

\* QString::isEmpty() of the line read
IsEmpty(l) == l.kind \in {"empty", "null"}

----------------------------------------------------------------------------
(* OverlayWindow *)

\* QColor(r, g, b, a)
QColor(r0, g0, b0, a0) == [r |-> r0, g |-> g0, b |-> b0, a |-> a0]

\* what a window shows before its first paint event: nothing
NoFill == [painted |-> FALSE, color |-> QColor(0, 0, 0, 0)]

\* OverlayWindow::OverlayWindow(screen): bound to the screen and its geometry,
\* m_opacity = 0.0, and show() asks for the first paint
NewOverlayWindow(screen) ==
  [ screen        |-> screen.name,
    geometry      |-> screen.geometry,
    m_opacity     |-> 0,
    updatePending |-> TRUE,
    fill          |-> NoFill ]

\* mutant of qBound: the lower limit is not applied
qBound_NoLower(lo, val, hi) == IF hi < val THEN hi ELSE val

\* qBound(min, val, max) == qMax(min, qMin(max, val))
qBound(lo, val, hi) ==
  LET m == IF hi < val THEN hi ELSE val
  IN  IF lo < m THEN m ELSE lo

\* mutant of setOpacity: the level is only ever raised
setOpacity_Max(w, level) ==
  LET c == qBound(MinLevel, level, MaxLevel)
  IN  [w EXCEPT !.m_opacity = IF c > w.m_opacity THEN c ELSE w.m_opacity,
                !.updatePending = TRUE]

\* mutant of setOpacity: the level is added to the stored one
setOpacity_Accumulate(w, level) ==
  [w EXCEPT !.m_opacity = qBound(MinLevel, w.m_opacity + level, MaxLevel),
            !.updatePending = TRUE]

\* mutant of setOpacity: a level outside [0, 1] is rejected, not clamped
setOpacity_Reject(w, level) ==
  IF level < MinLevel \/ level > MaxLevel THEN w
  ELSE [w EXCEPT !.m_opacity = level, !.updatePending = TRUE]

\* OverlayWindow::setOpacity(level): store the clamped level, then update()
setOpacity(w, level) ==
  [w EXCEPT !.m_opacity = qBound(MinLevel, level, MaxLevel),
            !.updatePending = TRUE]

\* int(x) of a double x = num / den: truncation toward zero
Trunc(num, den) ==
  IF num >= 0 THEN num \div den ELSE -((-num) \div den)

\* mutant of FillAlpha: the product is rounded to the nearest integer
FillAlpha_Round(m) ==
  (m * MAX_OPACITY * ChannelMax + (Unit * Unit) \div 2) \div (Unit * Unit)

\* int(m_opacity * MAX_OPACITY * 255), with m_opacity and MAX_OPACITY in fixed point
FillAlpha(m) == Trunc(m * MAX_OPACITY * ChannelMax, Unit * Unit)

\* OverlayWindow::paintEvent: fill the whole rect with QColor(0, 0, 0, alpha)
paintEvent(w) ==
  [w EXCEPT !.fill = [painted |-> TRUE, color |-> QColor(0, 0, 0, FillAlpha(w.m_opacity))],
            !.updatePending = FALSE]

----------------------------------------------------------------------------
(* main *)

\* the ready line: {"status":"ready","monitors":[...]}
ReadyMessage(names) == [status |-> "ready", monitors |-> names]

\* mutant of SetOpacityAll: only the first window is set
SetOpacityAll_FirstOnly(ws, value) ==
  [i \in 1..Len(ws) |-> IF i = 1 THEN setOpacity(ws[i], value) ELSE ws[i]]

\* for (auto *w : windows) w->setOpacity(value)
SetOpacityAll(ws, value) ==
  [i \in 1..Len(ws) |-> setOpacity(ws[i], value)]

\* mutant of ValueOf: a missing or non-numeric value counts as 1.0
ValueOf_DefaultOne(l) ==
  LET v == FromJsonObject(l).value
  IN  IF v.t = "number" THEN v.n ELSE Unit

\* mutant of Dispatch: the quit branch is never taken
Dispatch_NoQuit(l) ==
  IF IsEmpty(l) THEN "return"
  ELSE IF ToString(FromJsonObject(l).cmd) = "set_opacity" THEN "set_opacity"
  ELSE "none"

\* mutant of Dispatch: the end of the stream is taken for a quit
Dispatch_EofQuits(l) ==
  IF l.kind = "null" THEN "quit"
  ELSE IF IsEmpty(l) THEN "return"
  ELSE LET action == ToString(FromJsonObject(l).cmd)
       IN  IF action = "set_opacity" THEN "set_opacity"
           ELSE IF action = "quit" THEN "quit"
           ELSE "none"

\* the branch the handler takes for a line it has read:
\* "return" (empty line), "set_opacity", "quit" or "none"
Dispatch(l) ==
  IF IsEmpty(l) THEN "return"
  ELSE LET action == ToString(FromJsonObject(l).cmd)
       IN  IF action = "set_opacity" THEN "set_opacity"
           ELSE IF action = "quit" THEN "quit"
           ELSE "none"

\* double value = cmd["value"].toDouble()
ValueOf(l) == ToDouble(FromJsonObject(l).value)

Init ==
  /\ pc = "create"
  /\ screens \in ScreenLists
  /\ windows = <<>>
  /\ monitorNames = <<>>
  /\ out = <<>>
  /\ stdin = <<>>
  /\ eof = FALSE
  /\ arrived = 0
  /\ exitReq = FALSE
  /\ line = NoLine

\* mutant of CreateOverlay: the name is put in front of monitorNames
CreateOverlay_Prepend ==
  /\ pc = "create"
  /\ Len(windows) < Len(screens)
  /\ LET screen == screens[Len(windows) + 1]
     IN  /\ windows' = Append(windows, NewOverlayWindow(screen))
         /\ monitorNames' = <<screen.name>> \o monitorNames
  /\ UNCHANGED <<pc, screens, out, stdin, eof, arrived, exitReq, line>>

\* one iteration of the loop over QGuiApplication::screens()
CreateOverlay ==
  /\ pc = "create"
  /\ Len(windows) < Len(screens)
  /\ LET screen == screens[Len(windows) + 1]
     IN  /\ windows' = Append(windows, NewOverlayWindow(screen))
         /\ monitorNames' = Append(monitorNames, screen.name)
  /\ UNCHANGED <<pc, screens, out, stdin, eof, arrived, exitReq, line>>

\* mutant of SendReady: without a screen no ready line is written
SendReady_NeedsScreen ==
  /\ pc = "create"
  /\ Len(windows) = Len(screens)
  /\ Len(windows) > 0
  /\ out' = Append(out, ReadyMessage(monitorNames))
  /\ pc' = "exec"
  /\ UNCHANGED <<screens, windows, monitorNames, stdin, eof, arrived, exitReq, line>>

\* mutant of SendReady: the ready line is written without waiting for the
\* end of the loop over the screens
SendReady_Early ==
  /\ pc = "create"
  /\ out' = Append(out, ReadyMessage(monitorNames))
  /\ pc' = "exec"
  /\ UNCHANGED <<screens, windows, monitorNames, stdin, eof, arrived, exitReq, line>>

\* after the loop: write the ready line, flush, create the notifier, enter exec()
SendReady ==
  /\ pc = "create"
  /\ Len(windows) = Len(screens)
  /\ out' = Append(out, ReadyMessage(monitorNames))
  /\ pc' = "exec"
  /\ UNCHANGED <<screens, windows, monitorNames, stdin, eof, arrived, exitReq, line>>

\* mutant of Handle: the quit branch tears the windows down itself
\* (qDeleteAll(windows); windows.clear()) before it calls quit()
Handle_QuitClears(l) ==
  LET branch == Dispatch(l)
  IN  /\ line' = l
      /\ windows' = IF branch = "set_opacity"
                       THEN SetOpacityAll(windows, ValueOf(l))
                       ELSE IF branch = "quit" THEN <<>> ELSE windows
      /\ exitReq' = IF branch = "quit" THEN TRUE ELSE exitReq

\* what the body of the handler does with the line it has read
Handle(l) ==
  LET branch == Dispatch(l)
  IN  /\ line' = l
      /\ windows' = IF branch = "set_opacity"
                       THEN SetOpacityAll(windows, ValueOf(l))
                       ELSE windows
      /\ exitReq' = IF branch = "quit" THEN TRUE ELSE exitReq

\* mutant of Activated: the handler acknowledges every non-empty line on stdout
Activated_Ack ==
  /\ pc = "exec"
  /\ ~exitReq
  /\ stdin # <<>> \/ eof
  /\ IF stdin = <<>>
       THEN stdin' = stdin /\ out' = out /\ Handle(NullLine)
       ELSE \E k \in 0..(Len(stdin) - 1) :
              /\ stdin' = SubSeq(stdin, k + 2, Len(stdin))
              /\ out' = IF IsEmpty(Head(stdin)) THEN out
                        ELSE Append(out, [status |-> "ok", monitors |-> <<>>])
              /\ Handle(Head(stdin))
  /\ UNCHANGED <<pc, screens, monitorNames, eof, arrived>>

\* QSocketNotifier::activated on stdin: the lambda.  A fresh QTextStream on
\* stdin reads one line; at end of stream the line is null and the lambda
\* returns.  The stream buffers what it reads from the descriptor, so lines
\* that were available behind the line returned may be consumed with it, and
\* they are dropped with the stream when the lambda returns (k of them).
Activated ==
  /\ pc = "exec"
  /\ ~exitReq
  /\ stdin # <<>> \/ eof
  /\ IF stdin = <<>>
       THEN stdin' = stdin /\ Handle(NullLine)
       ELSE \E k \in 0..(Len(stdin) - 1) :
              /\ stdin' = SubSeq(stdin, k + 2, Len(stdin))
              /\ Handle(Head(stdin))
  /\ UNCHANGED <<pc, screens, monitorNames, out, eof, arrived>>

\* a paint event for window i, asked for by update()/show() or by the compositor
Paint(i) ==
  /\ pc = "exec"
  /\ windows' = [windows EXCEPT ![i] = paintEvent(windows[i])]
  /\ UNCHANGED <<pc, screens, monitorNames, out, stdin, eof, arrived, exitReq, line>>

\* app.exec() returns once quit() has been called; main returns
ExecReturn ==
  /\ pc = "exec"
  /\ exitReq
  /\ pc' = "terminated"
  /\ UNCHANGED <<screens, windows, monitorNames, out, stdin, eof, arrived, exitReq, line>>

\* the controller writes a line to the helper's stdin
Arrive(l) ==
  /\ ~eof
  /\ arrived < MaxLines
  /\ stdin' = Append(stdin, l)
  /\ arrived' = arrived + 1
  /\ UNCHANGED <<pc, screens, windows, monitorNames, out, eof, exitReq, line>>

\* the controller closes the helper's stdin
CloseStdin ==
  /\ ~eof
  /\ eof' = TRUE
  /\ UNCHANGED <<pc, screens, windows, monitorNames, out, stdin, arrived, exitReq, line>>

Next ==
  \/ CreateOverlay
  \/ SendReady
  \/ Activated
  \/ \E i \in 1..Len(windows) : Paint(i)
  \/ ExecReturn
  \/ \E l \in Lines : Arrive(l)
  \/ CloseStdin

Spec == Init /\ [][Next]_vars

\* main() runs its startup code to the end, and the event loop dispatches a
\* readable stdin and returns from exec() once quit() has been called
FairSpec ==
  /\ Spec
  /\ WF_vars(CreateOverlay)
  /\ WF_vars(SendReady)
  /\ WF_vars(Activated)
  /\ WF_vars(ExecReturn)

----------------------------------------------------------------------------
(* Properties *)

\* the dimming levels of the windows, in the order of the list
LevelsOf(ws) == [i \in 1..Len(ws) |-> ws[i].m_opacity]

\* the clamp of a value into [0, 1], case by case
ClampedLevel(v) == IF v < 0 THEN 0 ELSE IF v > Unit THEN Unit ELSE v

\* the text of l is a JSON object whose cmd is the string c
IsCommand(l, c) == l.kind = "object" /\ l.cmd.t = "string" /\ l.cmd.s = c

\* C1: in every reachable state the dimming level of every overlay window
\* lies in [0, 1], whatever values the set_opacity commands carried.
C1_LevelInRange ==
  \A i \in 1..Len(windows) :
    windows[i].m_opacity >= 0 /\ windows[i].m_opacity <= Unit

\* a negative value has been processed and the level of a window is 0
C1_Witness ==
  /\ Len(windows) = 2
  /\ line = SetOpacityLine(Num(-50))
  /\ windows[2].m_opacity = 0

\* C2: the ready line is written at most once, it has been written once the
\* event loop runs and before any line is read, and its monitors list holds
\* the names of the enumerated screens in enumeration order, as long as the
\* list of windows.
C2_ReadyOnce ==
  /\ Len(out) <= 1
  /\ pc \in {"exec", "terminated"} => Len(out) = 1
  /\ line # NoLine => Len(out) = 1
  /\ Len(out) = 1 =>
       /\ out[1].status = "ready"
       /\ Len(out[1].monitors) = Len(screens)
       /\ Len(out[1].monitors) = Len(windows)
       /\ \A i \in 1..Len(screens) : out[1].monitors[i] = screens[i].name

\* two screens, the ready line written, and a command read after it
C2_Witness ==
  /\ Len(screens) = 2
  /\ Len(out) = 1
  /\ out[1].monitors = <<"DP-1", "HDMI-1">>
  /\ line \in SetOpacityLines

\* C3: whenever the ready line has been written, the list of windows holds
\* one window for each enumerated screen, bound to that screen.
C3_SurfacesBeforeReady ==
  Len(out) > 0 =>
    /\ Len(windows) = Len(screens)
    /\ \A i \in 1..Len(screens) :
         /\ windows[i].screen = screens[i].name
         /\ windows[i].geometry = screens[i].geometry

\* the ready line written with two screens enumerated
C3_Witness ==
  /\ Len(out) = 1
  /\ Len(screens) = 2
  /\ Len(windows) = 2

\* C4: set_opacity is a broadcast: all windows hold the same dimming level in
\* every state, and after a set_opacity line that level is the clamp of the
\* value the line carries.
C4_Broadcast ==
  /\ \A i, j \in 1..Len(windows) : windows[i].m_opacity = windows[j].m_opacity
  /\ IsCommand(line, "set_opacity") /\ line.value.t = "number" =>
       \A i \in 1..Len(windows) : windows[i].m_opacity = ClampedLevel(line.value.n)

\* two windows, both at 0.5 after set_opacity 0.5
C4_Witness ==
  /\ Len(windows) = 2
  /\ line = SetOpacityLine(Num(50))
  /\ windows[1].m_opacity = 50
  /\ windows[2].m_opacity = 50

\* C5: after a set_opacity line with value v the level of every window is 0
\* when v < 0, 1 when v > 1 and v otherwise (the command is not rejected),
\* and every fill painted has an alpha computed from a level in [0, 1].
C5_Clamp ==
  /\ IsCommand(line, "set_opacity") /\ line.value.t = "number" =>
       \A i \in 1..Len(windows) :
         LET v == line.value.n
             m == windows[i].m_opacity
         IN  /\ v < 0 => m = 0
             /\ v > Unit => m = Unit
             /\ (0 <= v /\ v <= Unit) => m = v
  /\ \A i \in 1..Len(windows) :
       windows[i].fill.painted =>
         \E m \in 0..Unit :
           windows[i].fill.color.a = (m * 85 * 255) \div (Unit * Unit)

\* a window painted at level 0.5 (alpha 108) whose level a later
\* set_opacity -0.5 has set to 0
C5_Witness ==
  /\ Len(windows) >= 1
  /\ line = SetOpacityLine(Num(-50))
  /\ windows[1].fill.painted
  /\ windows[1].fill.color.a = 108
  /\ windows[1].m_opacity = 0

\* the text of l is one the handler has to ignore: an empty line, no JSON,
\* JSON that is no object, an object without a string cmd, an unknown cmd
IsIgnoredText(l) ==
  \/ l.kind \in {"empty", "garbage", "array"}
  \/ /\ l.kind = "object"
     /\ \/ l.cmd.t # "string"
        \/ l.cmd.s \notin {"set_opacity", "quit"}

\* C6: a step of the handler that reads an empty line, a non-JSON line, an
\* object without cmd or an object with an unknown cmd changes neither the
\* windows nor the lists nor the output, and the loop is still running after it.
C6_IgnoredLines ==
  [][ (Len(stdin') < Len(stdin) /\ IsIgnoredText(Head(stdin))) =>
        /\ windows' = windows
        /\ monitorNames' = monitorNames
        /\ out' = out
        /\ exitReq' = exitReq
        /\ pc' = "exec"
        /\ ~exitReq' ]_vars

\* a truncated quit object read while both windows are at 0.5: still running
C6_Witness ==
  /\ line = Line("garbage", Str("quit"), Undefined)
  /\ pc = "exec"
  /\ ~exitReq
  /\ Len(windows) = 2
  /\ windows[1].m_opacity = 50
  /\ windows[2].m_opacity = 50

\* C7: once a quit line has been read, no later line is read, no dimming
\* level changes any more, and the process terminates.
C7_QuitStops ==
  /\ [][ IsCommand(line, "quit") =>
           /\ line' = line
           /\ Len(stdin') >= Len(stdin)
           /\ LevelsOf(windows') = LevelsOf(windows) ]_vars
  /\ (IsCommand(line, "quit") ~> pc = "terminated")

\* terminated after quit with a set_opacity 1 line left unread and the level still 0
C7_Witness ==
  /\ pc = "terminated"
  /\ line = QuitLine
  /\ stdin = <<SetOpacityLine(Num(100))>>
  /\ Len(windows) >= 1
  /\ windows[1].m_opacity = 0

\* C8: the loop has left Running (quit requested or main returned) only if
\* the line read last is a quit command; after the end of the stream has
\* been read the loop is still running.
C8_OnlyQuitTerminates ==
  /\ (exitReq \/ pc = "terminated") => IsCommand(line, "quit")
  /\ pc = "terminated" => exitReq
  /\ line = NullLine => (pc = "exec" /\ ~exitReq)

\* the end of the stream read after a set_opacity 0.5: still running
C8_Witness ==
  /\ line = NullLine
  /\ eof
  /\ pc = "exec"
  /\ ~exitReq
  /\ Len(windows) >= 1
  /\ windows[1].m_opacity = 50

\* C9: stdout is empty until the ready line is written and holds exactly the
\* ready line from then on, whatever lines are read.
C9_NoOutput ==
  /\ pc = "create" => out = <<>>
  /\ pc # "create" =>
       out = << [status   |-> "ready",
                 monitors |-> [i \in 1..Len(screens) |-> screens[i].name]] >>

\* terminated after two lines have been read: stdout holds one line
C9_Witness ==
  /\ pc = "terminated"
  /\ arrived = 2
  /\ stdin = <<>>
  /\ Len(out) = 1

\* C10: every fill painted is black with an 8-bit alpha between 0 and 216; a
\* window repainted since its level was last set shows the integer part of
\* level * 0.85 * 255 (108 at 0.5, 216 at 1), which is that of the value of
\* the set_opacity line read last, and all such windows show the same alpha.
C10_FillAlpha ==
  \A i \in 1..Len(windows) :
    LET w == windows[i]
        a == w.fill.color.a
    IN  w.fill.painted =>
          /\ w.fill.color.r = 0 /\ w.fill.color.g = 0 /\ w.fill.color.b = 0
          /\ a >= 0 /\ a <= 216
          /\ ~w.updatePending =>
               /\ a * Unit * Unit <= w.m_opacity * 85 * 255
               /\ w.m_opacity * 85 * 255 < (a + 1) * Unit * Unit
               /\ w.m_opacity = 50 => a = 108
               /\ w.m_opacity = Unit => a = 216
               /\ (IsCommand(line, "set_opacity") /\ line.value.t = "number") =>
                    LET v == line.value.n
                    IN  /\ (0 <= v /\ v <= Unit) =>
                             /\ a * Unit * Unit <= v * 85 * 255
                             /\ v * 85 * 255 < (a + 1) * Unit * Unit
                        /\ v >= Unit => a = 216
               /\ \A j \in 1..Len(windows) :
                    (windows[j].fill.painted /\ ~windows[j].updatePending) =>
                      windows[j].fill.color.a = a

\* two windows repainted after set_opacity 0.5: both show alpha 108
C10_Witness ==
  /\ line = SetOpacityLine(Num(50))
  /\ Len(windows) = 2
  /\ \A i \in 1..2 :
       /\ windows[i].fill.painted
       /\ ~windows[i].updatePending
       /\ windows[i].fill.color.a = 108

\* the screen and the geometry each window is bound to, in the order of the list
BindingsOf(ws) == [i \in 1..Len(ws) |-> <<ws[i].screen, ws[i].geometry>>]

\* what has been painted on each window, in the order of the list
FillsOf(ws) == [i \in 1..Len(ws) |-> ws[i].fill]

\* C11: once the ready line is written (the event loop runs or has returned)
\* no step adds, removes, reorders or rebinds a window or changes
\* monitorNames, and a step of the handler changes nothing of a window but
\* its dimming level and its pending redraw.
C11_SurfaceListFixed ==
  [][ pc # "create" =>
        /\ BindingsOf(windows') = BindingsOf(windows)
        /\ monitorNames' = monitorNames
        /\ screens' = screens
        /\ Len(stdin') < Len(stdin) => FillsOf(windows') = FillsOf(windows) ]_vars

\* terminated by quit after a set_opacity 0.5: both windows are still in the
\* list, bound to their screens
C11_Witness ==
  /\ pc = "terminated"
  /\ line = QuitLine
  /\ Len(windows) = 2
  /\ windows[1].screen = "DP-1" /\ windows[2].screen = "HDMI-1"
  /\ windows[1].m_opacity = 50

\* the value a set_opacity command carries: its number, 0 when it has none
CommandValue(l) == IF l.value.t = "number" THEN l.value.n ELSE 0

\* C12: lines are applied one at a time, oldest first: before any line is
\* read every level is 0 (also that of a window just created); a step that
\* reads a set_opacity command sets every level to the clamp of that
\* command's value, whatever the levels were; no other step changes a level.
\* So the levels are those of the set_opacity command processed last.
C12_LastCommandWins ==
  /\ [](line = NoLine => \A i \in 1..Len(windows) : windows[i].m_opacity = 0)
  /\ [][ /\ Len(stdin') < Len(stdin) => line' = Head(stdin)
         /\ IF Len(stdin') < Len(stdin) /\ IsCommand(Head(stdin), "set_opacity")
              THEN \A i \in 1..Len(windows') :
                     windows'[i].m_opacity = ClampedLevel(CommandValue(Head(stdin)))
              ELSE \A i \in 1..Len(windows') :
                     windows'[i].m_opacity =
                       IF i <= Len(windows) THEN windows[i].m_opacity ELSE 0 ]_vars

\* set_opacity 0.5 read after a window was painted at level 1 (alpha 216):
\* the level is 0.5
C12_Witness ==
  /\ pc = "exec"
  /\ line = SetOpacityLine(Num(50))
  /\ Len(windows) = 2
  /\ windows[1].fill.painted /\ windows[1].fill.color.a = 216
  /\ windows[1].m_opacity = 50 /\ windows[2].m_opacity = 50

\* C13: setOpacity is idempotent: a step that reads the set_opacity command
\* that was read just before leaves every window as it was (with its redraw
\* asked for again); on every reachable window and for every value, setting
\* the level twice gives what setting it once gives, and the clamp of a
\* stored level is that level.
C13_Idempotent ==
  /\ [][ (Len(stdin') < Len(stdin) /\ Head(stdin) = line
            /\ IsCommand(line, "set_opacity")) =>
          /\ Len(windows') = Len(windows)
          /\ \A i \in 1..Len(windows) :
               windows'[i] = [windows[i] EXCEPT !.updatePending = TRUE] ]_vars
  /\ [](\A i \in 1..Len(windows) :
         /\ qBound(MinLevel, windows[i].m_opacity, MaxLevel) = windows[i].m_opacity
         /\ \A v \in Values :
              setOpacity(setOpacity(windows[i], v), v) = setOpacity(windows[i], v))

\* set_opacity 0.5 has been read, both windows are at 0.5, and the same
\* command is the next line on stdin
C13_Witness ==
  /\ pc = "exec"
  /\ ~exitReq
  /\ line = SetOpacityLine(Num(50))
  /\ stdin = <<SetOpacityLine(Num(50))>>
  /\ Len(windows) = 2
  /\ windows[1].m_opacity = 50 /\ windows[2].m_opacity = 50

\* C14: every command line that arrives before a quit is read and applied,
\* also when several lines are available at once: a step that takes lines
\* from a stdin holding set_opacity commands only takes exactly the oldest
\* one, which is the line the handler applies to the windows, and leaves the
\* lines behind it for the next activations (no line is lost).
C14_NoLineLost ==
  [][ ( /\ Len(stdin') < Len(stdin)
        /\ Len(windows) > 0
        /\ \A j \in 1..Len(stdin) : IsCommand(stdin[j], "set_opacity") ) =>
        /\ line' = Head(stdin)
        /\ stdin' = Tail(stdin) ]_vars

\* C15: after a set_opacity command whose value is absent or no number,
\* the dimming level of every window is 0.
C15_MissingValueIsZero ==
  (IsCommand(line, "set_opacity") /\ line.value.t # "number") =>
    \A i \in 1..Len(windows) : windows[i].m_opacity = 0

\* a window painted at level 0.5 (alpha 108) whose level a later
\* set_opacity without value has set to 0
C15_Witness ==
  /\ line = SetOpacityLine(Undefined)
  /\ Len(windows) = 2
  /\ windows[1].fill.painted /\ windows[1].fill.color.a = 108
  /\ windows[1].m_opacity = 0 /\ windows[2].m_opacity = 0

\* C16: with no screen enumerated the ready line can be written at once (the
\* step into the event loop waits for nothing); once written it is the only
\* line, with an empty monitors list; no step creates a window or changes
\* one (set_opacity is a no-op); and after a quit command main has returned
\* or exec() can return.
C16_NoScreens ==
  /\ []( Len(screens) = 0 =>
           /\ pc = "create" => ENABLED SendReady
           /\ pc # "create" => out = << [status |-> "ready", monitors |-> <<>>] >>
           /\ windows = <<>>
           /\ IsCommand(line, "quit") => (pc = "terminated" \/ ENABLED ExecReturn) )
  /\ [][ Len(screens) = 0 => (windows' = windows /\ Len(out') <= 1) ]_vars

\* no screens: a set_opacity command was read, then quit, and main returned
C16_Witness ==
  /\ Len(screens) = 0
  /\ windows = <<>>
  /\ out = << [status |-> "ready", monitors |-> <<>>] >>
  /\ pc = "terminated"
  /\ line = QuitLine
  /\ arrived = 2
  /\ stdin = <<>>

====
